---- MODULE Spec2Model ----
(***************************************************************************)
(* A model of builder_agent_fixed.py: the structure materialization and    *)
(* release pipeline (validate, resolve version, materialize, document,     *)
(* archive, append the build ledger).                                      *)
(*                                                                         *)
(* Names are sequences of one-character strings, so that the string tests  *)
(* of the source (strip, "/" in name, len, startswith, isdigit, int) are   *)
(* computed and not assumed.  Paths are sequences of names from the        *)
(* filesystem root.  The filesystem is the pair (dirs, files).             *)
(***************************************************************************)
EXTENDS Integers, Sequences, FiniteSets, TLC

VARIABLES
    dirs,          \* the directories on disk
    files,         \* the regular files on disk and their contents
    pc,            \* per invocation: the step of main() it takes next
    argv,          \* per invocation: the structure file and the base name
    raw,           \* per invocation: the parsed document
    structure,     \* per invocation: the tree under the root key
    root_key,      \* per invocation: the root key
    counts,        \* per invocation: pre_folders, pre_files, folders_created, files_created
    version_num,   \* per invocation: the version computed (0 before)
    zip_basename,  \* per invocation: the archive's file name (empty before)
    created,       \* per invocation: the paths create_structure created
    reported,      \* per invocation: the problems and warnings printed
    error,         \* per invocation: the step that ended the run ("" if none)
    exit_code,     \* per invocation: the process exit code (-1 while running)
    runs,          \* invocations started so far
    history        \* the successful builds, in the order they ended

vars == <<dirs, files, pc, argv, raw, structure, root_key, counts,
          version_num, zip_basename, created, reported, error, exit_code,
          runs, history>>

(***************************************************************************)
(* Bounds of the model.                                                    *)
(***************************************************************************)
\* pipeline invocations started in one behaviour
MaxRuns == 2
\* nested Directory levels below the root of the deep sample tree
DeepLevels == 21
\* length of the over-long sample name (one more than validate_name allows)
LongLen == 101

\* the invocations; Spec runs the first alone, SpecConc interleaves both
Procs == {1, 2}

(***************************************************************************)
(* Names.                                                                  *)
(***************************************************************************)
nP == <<"P">>
nQ == <<"Q">>
nOut == <<"o", "u", "t">>
nA == <<"a">>
nB == <<"b">>
nSrc == <<"s", "r", "c">>
nMain == <<"m", "a", "i", "n", ".", "t", "x", "t">>
nDot == <<".">>
nDotDot == <<".", ".">>
nSlash == <<"a", "/", "b">>
nBackslash == <<"a", "\\", "b">>
nEmpty == <<>>
nBlank == <<" ", "\t">>
nLong == [i \in 1..LongLen |-> "x"]
nReadme == <<"R", "E", "A", "D", "M", "E", ".", "m", "d">>
nIndexMd == <<"I", "n", "d", "e", "x", ".", "m", "d">>
nIndexHtml == <<"i", "n", "d", "e", "x", ".", "h", "t", "m", "l">>
nChangelog == <<"C", "H", "A", "N", "G", "E", "L", "O", "G", ".", "m", "d">>
nLatest == <<"l", "a", "t", "e", "s", "t", ".", "j", "s", "o", "n">>
nBuildLog == <<"b", "u", "i", "l", "d", "_", "l", "o", "g", ".", "t", "x", "t">>
nReleases == <<"R", "e", "l", "e", "a", "s", "e", "s">>
nGit == <<".", "g", "i", "t">>
\* the UTC date of the bounded runs, strftime('%Y-%m-%d'), kept as one token
Today == <<"2026-11-02">>

\* str.strip() removes these from both ends
Whitespace == {" ", "\t", "\n", "\r"}
DecimalDigits == <<"0", "1", "2", "3", "4", "5", "6", "7", "8", "9">>
\* the token "^2" stands for the one character SUPERSCRIPT TWO: str.isdigit()
\* is True for it and int() raises ValueError on it
SuperscriptTwo == "^2"
IsDigitChar(c) == (\E i \in 1..10 : DecimalDigits[i] = c) \/ c = SuperscriptTwo
IsDecimalChar(c) == \E i \in 1..10 : DecimalDigits[i] = c
DigitValue(c) == (CHOOSE i \in 1..10 : DecimalDigits[i] = c) - 1

\* str(n) for n >= 0
RECURSIVE IntToStr(_)
IntToStr(n) ==
    IF n < 10 THEN <<DecimalDigits[n + 1]>>
    ELSE IntToStr(n \div 10) \o <<DecimalDigits[(n % 10) + 1]>>

\* int(s) for a non-empty s of decimal digits
RECURSIVE StrToInt(_)
StrToInt(s) ==
    IF Len(s) = 0 THEN 0
    ELSE 10 * StrToInt(SubSeq(s, 1, Len(s) - 1)) + DigitValue(s[Len(s)])

\* str.isdigit(): non-empty and every character a digit
IsDigit(s) == Len(s) > 0 /\ \A i \in 1..Len(s) : IsDigitChar(s[i])
\* int(s) succeeds
IntParses(s) == Len(s) > 0 /\ \A i \in 1..Len(s) : IsDecimalChar(s[i])
StartsWith(s, prefix) ==
    Len(s) >= Len(prefix) /\ SubSeq(s, 1, Len(prefix)) = prefix
Contains(s, c) == \E i \in 1..Len(s) : s[i] = c

Max(S) == CHOOSE x \in S : \A y \in S : y <= x

(***************************************************************************)
(* StructureNode: what json.load gives.  type is "dict", "str", "None",    *)
(* "list" or "int"; a dict's kids are its items in insertion order.        *)
(***************************************************************************)
Dict(kids) == [type |-> "dict", kids |-> kids, text |-> ""]
Str(s) == [type |-> "str", kids |-> <<>>, text |-> s]
None == [type |-> "None", kids |-> <<>>, text |-> ""]
List == [type |-> "list", kids |-> <<>>, text |-> ""]
Number == [type |-> "int", kids |-> <<>>, text |-> ""]

(***************************************************************************)
(* validate_name / validate_structure.  The result of a validation is      *)
(* [err, folders, files]: err is <<>> or holds the one ValueError raised.  *)
(***************************************************************************)
ValidateName(name, path) ==
    IF \A i \in 1..Len(name) : name[i] \in Whitespace
    THEN <<[path |-> path, reason |-> "empty name"]>>
    ELSE IF Contains(name, "/") \/ Contains(name, "\\")
    THEN <<[path |-> path, reason |-> "path separator"]>>
    ELSE IF Len(name) > 100
    THEN <<[path |-> path, reason |-> "too long"]>>
    ELSE <<>>

RECURSIVE ValidateItems(_, _, _, _)
ValidateItems(kids, i, path, acc) ==
    IF i > Len(kids) THEN acc
    ELSE
      LET name == kids[i][1]
          contents == kids[i][2]
          current_path == Append(path, name)
          bad == ValidateName(name, current_path)
      IN  IF bad # <<>> THEN [acc EXCEPT !.err = bad]
          ELSE IF contents.type = "dict"
          THEN LET sub == ValidateItems(contents.kids, 1, current_path,
                                        [err |-> <<>>, folders |-> 0, files |-> 0])
               IN  IF sub.err # <<>> THEN [acc EXCEPT !.err = sub.err]
                   ELSE ValidateItems(kids, i + 1, path,
                          [acc EXCEPT !.folders = @ + 1 + sub.folders,
                                      !.files = @ + sub.files])
          ELSE IF contents.type \in {"str", "None"}
          THEN ValidateItems(kids, i + 1, path, [acc EXCEPT !.files = @ + 1])
          ELSE [acc EXCEPT !.err = <<[path |-> current_path, reason |-> "value type"]>>]

ValidateStructure(node, path) ==
    IF node.type # "dict"
    THEN [err |-> <<[path |-> path, reason |-> "top-level not a dict"]>>,
          folders |-> 0, files |-> 0]
    ELSE ValidateItems(node.kids, 1, path, [err |-> <<>>, folders |-> 0, files |-> 0])

(***************************************************************************)
(* The filesystem.  dirs is the set of directories (paths), files maps     *)
(* each regular file's path to its content, a sequence of chunks.          *)
(***************************************************************************)
Prefixes(p) == {SubSeq(p, 1, i) : i \in 0..Len(p)}
IsUnder(p, root) == Len(p) >= Len(root) /\ SubSeq(p, 1, Len(root)) = root
Dirname(p) == IF p = <<>> THEN <<>> ELSE SubSeq(p, 1, Len(p) - 1)
Basename(p) == IF p = <<>> THEN <<>> ELSE p[Len(p)]
IsDir(d, p) == p \in d
IsFile(f, p) == p \in DOMAIN f
PathExists(d, f, p) == IsDir(d, p) \/ IsFile(f, p)
\* os.listdir(p): the names of p's entries
ListDir(d, f, p) == {Basename(q) : q \in {x \in d \cup DOMAIN f : x # <<>> /\ Dirname(x) = p}}
\* the directories os.walk(root) visits
WalkDirs(d, root) == {x \in d : IsUnder(x, root)}
SubDirNames(d, p) == {Basename(q) : q \in {x \in d : x # <<>> /\ Dirname(x) = p}}
FileNames(f, p) == {Basename(q) : q \in {x \in DOMAIN f : Dirname(x) = p}}

\* os.path.join(root, name) as the kernel resolves it when root is a directory
Join(root, name) ==
    IF name = nDotDot THEN Dirname(root)
    ELSE IF name = nDot THEN root
    ELSE Append(root, name)

\* os.makedirs(p, exist_ok=True): fails when p or one of its ancestors is a file
MakeDirs(d, f, p) ==
    IF \E q \in Prefixes(p) : IsFile(f, q)
    THEN [ok |-> FALSE, dirs |-> d]
    ELSE [ok |-> TRUE, dirs |-> d \cup Prefixes(p)]

\* open(p, "w").write(content): fails on a directory or under a missing directory
WriteFile(d, f, p, content) ==
    IF IsDir(d, p) \/ ~IsDir(d, Dirname(p))
    THEN [ok |-> FALSE, files |-> f]
    ELSE [ok |-> TRUE, files |-> (p :> content) @@ f]

\* file contents
Text(s) == IF s = "" THEN <<>> ELSE <<[kind |-> "text", text |-> s]>>
ContentOf(node) == IF node.type = "None" THEN Text("") ELSE Text(node.text)

ParentDir == <<nOut>>
VersionLabel(n) == <<"v">> \o IntToStr(n)
OutFolder(base, n) == base \o <<"_", "v">> \o IntToStr(n)
OutDir(base, n) == Append(ParentDir, OutFolder(base, n))
ReleasesDir == Append(ParentDir, nReleases)
ZipBasename(base, n) == OutFolder(base, n) \o <<"_">> \o Today \o <<".", "z", "i", "p">>
LogPath == Append(ParentDir, nBuildLog)

(***************************************************************************)
(* create_structure.  st is [dirs, files, folders, nfiles, made, ok]: the  *)
(* filesystem so far, the two counters, the paths created, and ok = FALSE  *)
(* once an OSError has been raised (the loop stops there).                 *)
(***************************************************************************)
RECURSIVE CreateItems(_, _, _, _)
CreateItems(kids, i, root, st) ==
    IF ~st.ok \/ i > Len(kids) THEN st
    ELSE
      LET name == kids[i][1]
          contents == kids[i][2]
          path == Join(root, name)
          head == MakeDirs(st.dirs, st.files, root)
      IN  IF ~head.ok THEN [st EXCEPT !.ok = FALSE]
          ELSE IF contents.type = "dict"
          THEN LET md == MakeDirs(head.dirs, st.files, path)
               IN  IF ~md.ok THEN [st EXCEPT !.ok = FALSE, !.dirs = head.dirs]
                   ELSE CreateItems(kids, i + 1, root,
                          CreateItems(contents.kids, 1, path,
                            [st EXCEPT !.dirs = md.dirs,
                                       !.made = @ \cup (md.dirs \ st.dirs),
                                       !.folders = @ + 1]))
          ELSE LET wr == WriteFile(head.dirs, st.files, path, ContentOf(contents))
               IN  IF ~wr.ok
                   THEN [st EXCEPT !.ok = FALSE, !.dirs = head.dirs,
                                   !.made = @ \cup (head.dirs \ st.dirs)]
                   ELSE CreateItems(kids, i + 1, root,
                          [st EXCEPT !.dirs = head.dirs, !.files = wr.files,
                                     !.made = @ \cup (head.dirs \ st.dirs) \cup {path},
                                     !.nfiles = @ + 1])

\* the materializer had it removed an existing release directory first
\* (shutil.rmtree(root) before the loop): destroy-if-exists
CreateStructureFresh(node, root, d, f) ==
    CreateItems(node.kids, 1, root,
                [dirs |-> {p \in d : ~IsUnder(p, root)},
                 files |-> [p \in {q \in DOMAIN f : ~IsUnder(q, root)} |-> f[p]],
                 folders |-> 0, nfiles |-> 0, made |-> {}, ok |-> TRUE])

CreateStructure(node, root, d, f) ==
    CreateItems(node.kids, 1, root,
                [dirs |-> d, files |-> f, folders |-> 0, nfiles |-> 0,
                 made |-> {}, ok |-> TRUE])

(***************************************************************************)
(* compute_next_version: [ok, version]; ok = FALSE when int(suffix) raises *)
(* ValueError.                                                             *)
(***************************************************************************)
VersionSuffixes(base_name, d, f) ==
    LET prefix == base_name \o <<"_", "v">>
    IN  {SubSeq(e, Len(prefix) + 1, Len(e)) :
           e \in {x \in ListDir(d, f, ParentDir) : StartsWith(x, prefix)}}

ComputeNextVersion(base_name, d, f) ==
    IF ~IsDir(d, ParentDir) THEN [ok |-> TRUE, version |-> 1]
    ELSE
      LET digits == {s \in VersionSuffixes(base_name, d, f) : IsDigit(s)}
          existing == {StrToInt(s) : s \in {x \in digits : IntParses(x)}}
      IN  IF \E s \in digits : ~IntParses(s) THEN [ok |-> FALSE, version |-> 0]
          ELSE IF existing = {} THEN [ok |-> TRUE, version |-> 1]
          ELSE [ok |-> TRUE, version |-> Max(existing) + 1]

(***************************************************************************)
(* generate_folder_docs.  os.walk visits the directories top-down, the     *)
(* children of one directory in the order the OS lists them: the call      *)
(* raises at the first directory met whose Index.md is a directory, after  *)
(* the directories visited before it were documented.  The operator gives  *)
(* the set of outcomes [ok, files].                                        *)
(***************************************************************************)
ReadmeChunk(p, root, label) ==
    <<[kind |-> "readme", title |-> Basename(p), rel |-> SubSeq(p, Len(root) + 1, Len(p)),
       label |-> label]>>
IndexChunk(d, f, p, root, label) ==
    <<[kind |-> "index", rel |-> SubSeq(p, Len(root) + 1, Len(p)), label |-> label,
       subfolders |-> {n \in SubDirNames(d, p) : ~StartsWith(n, <<".">>)},
       filenames |-> {n \in FileNames(f, p) : ~StartsWith(n, <<".">>)}]>>

\* the files after the directories in done got README.md (if missing) and
\* Index.md, and those in half only README.md (if missing)
DocsWritten(d, f, root, label, done, half) ==
    LET readmes == {Append(p, nReadme) : p \in done \cup half}
        newReadmes == {q \in readmes : ~PathExists(d, f, q)}
        indexes == {Append(p, nIndexMd) : p \in done}
    IN  [q \in DOMAIN f \cup newReadmes \cup indexes |->
           IF q \in indexes THEN IndexChunk(d, f, Dirname(q), root, label)
           ELSE IF q \in newReadmes THEN ReadmeChunk(Dirname(q), root, label)
           ELSE f[q]]

GenerateFolderDocs(root, label, d, f) ==
    LET walk == WalkDirs(d, root)
        bad == {p \in walk : IsDir(d, Append(p, nIndexMd))}
        first == {p \in bad : \A q \in bad : q = p \/ ~IsUnder(p, q)}
        Anc(p) == {q \in walk : q # p /\ IsUnder(p, q)}
        Clean(p) == \A q \in bad : ~IsUnder(q, p)
        Sibs(p) == {q \in walk : /\ q \notin Anc(p) \cup {p}
                                 /\ Dirname(q) \in Anc(p)
                                 /\ Clean(q)}
    IN  IF bad = {}
        THEN {[ok |-> TRUE, files |-> DocsWritten(d, f, root, label, walk, {})]}
        ELSE {[ok |-> FALSE,
               files |-> DocsWritten(d, f, root, label,
                           Anc(p) \cup {q \in walk : \E s \in Y : IsUnder(q, s)}, {p})] :
                <<p, Y>> \in {x \in first \X SUBSET walk : x[2] \subseteq Sibs(x[1])}}

(***************************************************************************)
(* generate_html_index, write_changelog, write_latest_json, make_zip,      *)
(* append_build_log: each gives [ok, files], ok = FALSE when it raises.    *)
(***************************************************************************)
GenerateHtmlIndex(root, label, base_name, d, f) ==
    IF ~IsDir(d, root) THEN [ok |-> FALSE, files |-> f]
    ELSE WriteFile(d, f, Append(root, nIndexHtml),
           <<[kind |-> "html", title |-> base_name, label |-> label,
              folders |-> SubDirNames(d, root), filenames |-> FileNames(f, root)]>>)

WriteChangelog(root, label, folders, nfiles, zip_name, d, f) ==
    WriteFile(d, f, Append(root, nChangelog),
      <<[kind |-> "changelog", label |-> label, folders |-> folders,
         nfiles |-> nfiles, zip |-> zip_name]>>)

WriteLatestJson(root, base_name, label, zip_name, folders, nfiles, d, f) ==
    WriteFile(d, f, Append(root, nLatest),
      <<[kind |-> "latest", project |-> base_name, label |-> label,
         zip_name |-> zip_name, folders |-> folders, nfiles |-> nfiles]>>)

\* the archive's entries: every file under source_dir, named relative to
\* the parent of source_dir
ZipEntries(source_dir, f) ==
    LET members == {q \in DOMAIN f : IsUnder(q, source_dir)}
        Rel(q) == SubSeq(q, Len(source_dir), Len(q))
    IN  [e \in {Rel(q) : q \in members} |->
           f[CHOOSE q \in members : Rel(q) = e]]

MakeZip(source_dir, zip_path, d, f) ==
    WriteFile(d, f, zip_path, <<[kind |-> "zip", entries |-> ZipEntries(source_dir, f)]>>)

LedgerLine(base_name, label, out_dir, zip_path, folders, nfiles) ==
    [kind |-> "line", base |-> base_name, label |-> label, folders |-> folders,
     nfiles |-> nfiles, out |-> out_dir, zip |-> zip_path]

\* open(log, "a").write(line)
AppendBuildLog(base_name, label, out_dir, zip_path, folders, nfiles, d, f) ==
    IF IsDir(d, LogPath) \/ ~IsDir(d, ParentDir)
    THEN [ok |-> FALSE, files |-> f]
    ELSE [ok |-> TRUE,
          files |-> (LogPath :> ((IF IsFile(f, LogPath) THEN f[LogPath] ELSE <<>>)
                                 \o <<LedgerLine(base_name, label, out_dir, zip_path,
                                                 folders, nfiles)>>)) @@ f]

IsGitRepo(d) == IsDir(d, Append(ParentDir, nGit))

(***************************************************************************)
(* The inputs: the structure file named by argv[1] and the base name.      *)
(***************************************************************************)
RECURSIVE Chain(_)
Chain(n) ==
    IF n = 0 THEN Dict(<< <<nA, Str("hello")>> >>)
    ELSE Dict(<< <<nA, Chain(n - 1)>> >>)

Scenario1 == Dict(<< <<nSrc, Dict(<< <<nMain, Str("hello")>> >>)>>, <<nReadme, Str("hi")>> >>)
EmptyTree == Dict(<<>>)
FileA == Dict(<< <<nA, Str("hello")>> >>)
NullB == Dict(<< <<nB, None>> >>)
DotDotFile == Dict(<< <<nDotDot, Dict(<< <<nA, Str("x")>> >>)>> >>)
DotDotEmpty == Dict(<< <<nDotDot, EmptyTree>> >>)
DotDir == Dict(<< <<nDot, Dict(<< <<nA, Str("hello")>> >>)>> >>)
DotFile == Dict(<< <<nDot, Str("x")>> >>)
OwnDocs == Dict(<< <<nIndexMd, Str("mine")>>, <<nIndexHtml, Str("mine")>>,
                   <<nChangelog, Str("mine")>>, <<nLatest, Str("mine")>>,
                   <<nReadme, Str("mine")>> >>)
IndexMdDir == Dict(<< <<nSrc, EmptyTree>>, <<nIndexMd, EmptyTree>> >>)
SubIndexMdDir == Dict(<< <<nA, EmptyTree>>, <<nB, Dict(<< <<nIndexMd, EmptyTree>> >>)>> >>)
IndexHtmlDir == Dict(<< <<nIndexHtml, EmptyTree>> >>)
ChangelogDir == Dict(<< <<nChangelog, EmptyTree>> >>)
LatestDir == Dict(<< <<nLatest, EmptyTree>> >>)
LogClobber == Dict(<< <<nDotDot, Dict(<< <<nBuildLog, Str("x")>> >>)>> >>)
VersionDir == Dict(<< <<nDotDot, Dict(<< <<OutFolder(nP, 3), EmptyTree>> >>)>> >>)
DeepTree == Chain(DeepLevels)
BadSlash == Dict(<< <<nA, Str("hello")>>, <<nSlash, Str("x")>> >>)
BadBackslash == Dict(<< <<nBackslash, Str("x")>> >>)
BadEmpty == Dict(<< <<nEmpty, Str("x")>> >>)
BadBlank == Dict(<< <<nBlank, None>> >>)
BadLong == Dict(<< <<nLong, None>> >>)
BadList == Dict(<< <<nA, List>> >>)
BadNested == Dict(<< <<nSrc, Dict(<< <<nMain, Number>> >>)>> >>)
TwoProblems == Dict(<< <<nA, Number>>, <<nSrc, Dict(<< <<nSlash, Str("x")>> >>)>> >>)
ThreeProblems == Dict(<< <<nSrc, Dict(<< <<nEmpty, Str("x")>>, <<nA, List>> >>)>>,
                         <<nBackslash, None>> >>)

ValidTrees ==
    {Scenario1, EmptyTree, FileA, NullB, DotDotFile, DotDotEmpty, DotDir, DotFile,
     OwnDocs, IndexMdDir, SubIndexMdDir, IndexHtmlDir, ChangelogDir, LatestDir,
     LogClobber, VersionDir, DeepTree}
InvalidTrees ==
    {BadSlash, BadBackslash, BadEmpty, BadBlank, BadLong, BadList, BadNested,
     TwoProblems, ThreeProblems, Str("not a mapping")}

\* the parsed documents: {"P": tree}, two keys, a list, a number
Docs ==
    {Dict(<< <<nP, t>> >>) : t \in ValidTrees \cup InvalidTrees}
    \cup {Dict(<< <<nA, FileA>>, <<nB, NullB>> >>),
          Dict(<< <<nQ, NullB>>, <<nP, FileA>> >>),
          Dict(<<>>),
          [List EXCEPT !.kids = << <<nP, None>> >>],
          [List EXCEPT !.kids = << <<nA, None>> >>],
          List, Number}
JsonFiles ==
    {[exists |-> FALSE, parses |-> FALSE, doc |-> None],
     [exists |-> TRUE, parses |-> FALSE, doc |-> None]}
    \cup {[exists |-> TRUE, parses |-> TRUE, doc |-> x] : x \in Docs}
\* the second base name builds {"P": ...} documents through the one-key rule
Inputs ==
    {[json |-> j, base_name |-> nP] : j \in JsonFiles}
    \cup {[json |-> [exists |-> TRUE, parses |-> TRUE, doc |-> Dict(<< <<nP, t>> >>)],
           base_name |-> nQ] : t \in {FileA, EmptyTree, DotDotFile, BadSlash}}
\* what two concurrent invocations are given
ConcInputs ==
    {[json |-> [exists |-> TRUE, parses |-> TRUE, doc |-> Dict(<< <<nP, t>> >>)],
      base_name |-> nP] : t \in {FileA, NullB, BadSlash}}

(***************************************************************************)
(* The initial filesystems: the output parent missing, or present with     *)
(* entries no build of P made.                                             *)
(***************************************************************************)
Under(names) == {<<>>, ParentDir} \cup {Append(ParentDir, n) : n \in names}
Touch(names) == [p \in {Append(ParentDir, n) : n \in names} |-> <<>>]
Worlds ==
    {[dirs |-> {<<>>}, files |-> Touch({})],
     [dirs |-> Under({nGit, OutFolder(nQ, 2), nP \o <<"_", "v">>}),
      files |-> Touch({nP \o <<"_", "v", "x">>, nP \o <<"_", "v", "0", "x">>})],
     [dirs |-> Under({nBuildLog}), files |-> Touch({})],
     [dirs |-> Under({}),
      files |-> Touch({nP \o <<"_", "v", SuperscriptTwo>>, nReleases})]}

(***************************************************************************)
(* main(), one action per step.  pc[r] names the step invocation r takes   *)
(* next; "exit" is a finished process, whose exit_code is 0 after the      *)
(* build summary and 1 after sys.exit(1) or an uncaught exception (error   *)
(* names the step that ended the run).                                     *)
(***************************************************************************)
NoCounts == [pre_folders |-> 0, pre_files |-> 0, folders_created |-> 0, files_created |-> 0]

Init ==
    /\ \E w \in Worlds : dirs = w.dirs /\ files = w.files
    /\ pc = [r \in Procs |-> "idle"]
    /\ argv = [r \in Procs |-> [json |-> [exists |-> FALSE, parses |-> FALSE, doc |-> None],
                                base_name |-> nP]]
    /\ raw = [r \in Procs |-> None]
    /\ structure = [r \in Procs |-> None]
    /\ root_key = [r \in Procs |-> <<>>]
    /\ counts = [r \in Procs |-> NoCounts]
    /\ version_num = [r \in Procs |-> 0]
    /\ zip_basename = [r \in Procs |-> <<>>]
    /\ created = [r \in Procs |-> {}]
    /\ reported = [r \in Procs |-> <<>>]
    /\ error = [r \in Procs |-> ""]
    /\ exit_code = [r \in Procs |-> -1]
    /\ runs = 0
    /\ history = <<>>

\* the process ends: sys.exit(code), an uncaught exception (code 1), or the
\* return of main (code 0)
Exit(r, code, why) ==
    /\ pc' = [pc EXCEPT ![r] = "exit"]
    /\ exit_code' = [exit_code EXCEPT ![r] = code]
    /\ error' = [error EXCEPT ![r] = why]

Goto(r, step) ==
    /\ pc' = [pc EXCEPT ![r] = step]
    /\ UNCHANGED <<exit_code, error>>

out_dir(r) == OutDir(argv[r].base_name, version_num[r])
zip_path(r) == Append(ReleasesDir, zip_basename[r])
version_label(r) == VersionLabel(version_num[r])

\* a process is started: python builder_agent_fixed.py <json> <base> out
Start(r, inputs) ==
    /\ pc[r] \in {"idle", "exit"}
    /\ runs < MaxRuns
    /\ runs' = runs + 1
    /\ \E in \in inputs : argv' = [argv EXCEPT ![r] = in]
    /\ raw' = [raw EXCEPT ![r] = None]
    /\ structure' = [structure EXCEPT ![r] = None]
    /\ root_key' = [root_key EXCEPT ![r] = <<>>]
    /\ counts' = [counts EXCEPT ![r] = NoCounts]
    /\ version_num' = [version_num EXCEPT ![r] = 0]
    /\ zip_basename' = [zip_basename EXCEPT ![r] = <<>>]
    /\ created' = [created EXCEPT ![r] = {}]
    /\ reported' = [reported EXCEPT ![r] = <<>>]
    /\ error' = [error EXCEPT ![r] = ""]
    /\ exit_code' = [exit_code EXCEPT ![r] = -1]
    /\ pc' = [pc EXCEPT ![r] = "load"]
    /\ UNCHANGED <<dirs, files, history>>

LoadJson(r) ==
    /\ pc[r] = "load"
    /\ IF ~argv[r].json.exists THEN Exit(r, 1, "json not found") /\ UNCHANGED raw
       ELSE IF ~argv[r].json.parses THEN Exit(r, 1, "json.load") /\ UNCHANGED raw
       ELSE Goto(r, "rootkey") /\ raw' = [raw EXCEPT ![r] = argv[r].json.doc]
    /\ UNCHANGED <<dirs, files, argv, structure, root_key, counts, version_num,
                   zip_basename, created, reported, runs, history>>

\* base_name in raw / len(raw) == 1 / raw[...]: a list or a number here
\* raises TypeError or AttributeError, which nothing catches
RootKey(r) ==
    /\ pc[r] = "rootkey"
    /\ LET doc == raw[r]
           base_name == argv[r].base_name
           has == \E i \in 1..Len(doc.kids) : doc.kids[i][1] = base_name
       IN  IF doc.type = "int" THEN Exit(r, 1, "TypeError") /\ UNCHANGED <<structure, root_key>>
           ELSE IF doc.type = "list" /\ has
           THEN Exit(r, 1, "TypeError") /\ UNCHANGED <<structure, root_key>>
           ELSE IF doc.type = "list" /\ Len(doc.kids) = 1
           THEN Exit(r, 1, "AttributeError") /\ UNCHANGED <<structure, root_key>>
           ELSE IF doc.type = "dict" /\ has
           THEN /\ Goto(r, "validate")
                /\ root_key' = [root_key EXCEPT ![r] = base_name]
                /\ structure' = [structure EXCEPT ![r] =
                     doc.kids[CHOOSE i \in 1..Len(doc.kids) : doc.kids[i][1] = base_name][2]]
           ELSE IF doc.type = "dict" /\ Len(doc.kids) = 1
           THEN /\ Goto(r, "validate")
                /\ root_key' = [root_key EXCEPT ![r] = doc.kids[1][1]]
                /\ structure' = [structure EXCEPT ![r] = doc.kids[1][2]]
           ELSE Exit(r, 1, "root key") /\ UNCHANGED <<structure, root_key>>
    /\ UNCHANGED <<dirs, files, argv, raw, counts, version_num, zip_basename,
                   created, reported, runs, history>>

\* main had it created the output parent before validating (line 385
\* moved above line 370)
ValidateAfterMakedirs(r) ==
    /\ pc[r] = "validate"
    /\ dirs' = MakeDirs(dirs, files, ParentDir).dirs
    /\ LET v == ValidateStructure(structure[r], <<root_key[r]>>)
       IN  IF v.err # <<>>
           THEN /\ Exit(r, 1, "validation")
                /\ reported' = [reported EXCEPT ![r] = v.err]
                /\ UNCHANGED counts
           ELSE /\ Goto(r, "mkparent")
                /\ counts' = [counts EXCEPT ![r].pre_folders = v.folders,
                                            ![r].pre_files = v.files]
                /\ UNCHANGED reported
    /\ UNCHANGED <<files, argv, raw, structure, root_key, version_num,
                   zip_basename, created, runs, history>>

Validate(r) ==
    /\ pc[r] = "validate"
    /\ LET v == ValidateStructure(structure[r], <<root_key[r]>>)
       IN  IF v.err # <<>>
           THEN /\ Exit(r, 1, "validation")
                /\ reported' = [reported EXCEPT ![r] = v.err]
                /\ UNCHANGED counts
           ELSE /\ Goto(r, "mkparent")
                /\ counts' = [counts EXCEPT ![r].pre_folders = v.folders,
                                            ![r].pre_files = v.files]
                /\ UNCHANGED reported
    /\ UNCHANGED <<dirs, files, argv, raw, structure, root_key, version_num,
                   zip_basename, created, runs, history>>

\* os.makedirs(abs_parent, exist_ok=True)
MakeParent(r) ==
    /\ pc[r] = "mkparent"
    /\ LET md == MakeDirs(dirs, files, ParentDir)
       IN  /\ dirs' = md.dirs
           /\ IF md.ok THEN Goto(r, "version") ELSE Exit(r, 1, "makedirs parent")
    /\ UNCHANGED <<files, argv, raw, structure, root_key, counts, version_num,
                   zip_basename, created, reported, runs, history>>

Version(r) ==
    /\ pc[r] = "version"
    /\ LET v == ComputeNextVersion(argv[r].base_name, dirs, files)
       IN  IF v.ok
           THEN Goto(r, "mkreleases") /\ version_num' = [version_num EXCEPT ![r] = v.version]
           ELSE Exit(r, 1, "compute_next_version") /\ UNCHANGED version_num
    /\ UNCHANGED <<dirs, files, argv, raw, structure, root_key, counts,
                   zip_basename, created, reported, runs, history>>

\* os.makedirs(releases_dir, exist_ok=True)
MakeReleases(r) ==
    /\ pc[r] = "mkreleases"
    /\ LET md == MakeDirs(dirs, files, ReleasesDir)
       IN  /\ dirs' = md.dirs
           /\ IF md.ok THEN Goto(r, "create") ELSE Exit(r, 1, "makedirs releases")
    /\ UNCHANGED <<files, argv, raw, structure, root_key, counts, version_num,
                   zip_basename, created, reported, runs, history>>

Create(r) ==
    /\ pc[r] = "create"
    /\ LET st == CreateStructure(structure[r], out_dir(r), dirs, files)
       IN  /\ dirs' = st.dirs
           /\ files' = st.files
           /\ created' = [created EXCEPT ![r] = st.made]
           /\ IF st.ok
              THEN /\ Goto(r, "docs")
                   /\ counts' = [counts EXCEPT ![r].folders_created = st.folders,
                                               ![r].files_created = st.nfiles]
              ELSE Exit(r, 1, "create_structure") /\ UNCHANGED counts
    /\ UNCHANGED <<argv, raw, structure, root_key, version_num, zip_basename,
                   reported, runs, history>>

FolderDocs(r) ==
    /\ pc[r] = "docs"
    /\ \E o \in GenerateFolderDocs(out_dir(r), version_label(r), dirs, files) :
         /\ files' = o.files
         /\ IF o.ok THEN Goto(r, "html") ELSE Exit(r, 1, "generate_folder_docs")
    /\ UNCHANGED <<dirs, argv, raw, structure, root_key, counts, version_num,
                   zip_basename, created, reported, runs, history>>

HtmlIndex(r) ==
    /\ pc[r] = "html"
    /\ LET o == GenerateHtmlIndex(out_dir(r), version_label(r), argv[r].base_name, dirs, files)
       IN  /\ files' = o.files
           /\ IF o.ok THEN Goto(r, "changelog") ELSE Exit(r, 1, "generate_html_index")
    /\ UNCHANGED <<dirs, argv, raw, structure, root_key, counts, version_num,
                   zip_basename, created, reported, runs, history>>

\* zip_basename is named, then write_changelog
Changelog(r) ==
    /\ pc[r] = "changelog"
    /\ LET zb == ZipBasename(argv[r].base_name, version_num[r])
           o == WriteChangelog(out_dir(r), version_label(r), counts[r].folders_created,
                               counts[r].files_created, zb, dirs, files)
       IN  /\ zip_basename' = [zip_basename EXCEPT ![r] = zb]
           /\ files' = o.files
           /\ IF o.ok THEN Goto(r, "latest") ELSE Exit(r, 1, "write_changelog")
    /\ UNCHANGED <<dirs, argv, raw, structure, root_key, counts, version_num,
                   created, reported, runs, history>>

LatestJson(r) ==
    /\ pc[r] = "latest"
    /\ LET o == WriteLatestJson(out_dir(r), argv[r].base_name, version_label(r),
                                zip_basename[r], counts[r].folders_created,
                                counts[r].files_created, dirs, files)
       IN  /\ files' = o.files
           /\ IF o.ok THEN Goto(r, "zip") ELSE Exit(r, 1, "write_latest_json")
    /\ UNCHANGED <<dirs, argv, raw, structure, root_key, counts, version_num,
                   zip_basename, created, reported, runs, history>>

Zip(r) ==
    /\ pc[r] = "zip"
    /\ LET o == MakeZip(out_dir(r), zip_path(r), dirs, files)
       IN  /\ files' = o.files
           /\ IF o.ok THEN Goto(r, "ledger") ELSE Exit(r, 1, "make_zip")
    /\ UNCHANGED <<dirs, argv, raw, structure, root_key, counts, version_num,
                   zip_basename, created, reported, runs, history>>

Ledger(r) ==
    /\ pc[r] = "ledger"
    /\ LET o == AppendBuildLog(argv[r].base_name, version_label(r), out_dir(r), zip_path(r),
                               counts[r].folders_created, counts[r].files_created,
                               dirs, files)
       IN  /\ files' = o.files
           /\ IF o.ok THEN Goto(r, "git") ELSE Exit(r, 1, "append_build_log")
    /\ UNCHANGED <<dirs, argv, raw, structure, root_key, counts, version_num,
                   zip_basename, created, reported, runs, history>>

\* in CI the commit is skipped; otherwise try_git_commit, which returns
\* whatever git does: no repository, a commit, a non-zero git exit, or an
\* exception of subprocess.run, caught and printed
GitCommit(r) ==
    /\ pc[r] = "git"
    /\ \E ci \in BOOLEAN, git \in {"committed", "non-zero exit", "git commit failed"} :
         reported' = [reported EXCEPT ![r] =
                        IF ci THEN <<[path |-> <<>>, reason |-> "CI: commit skipped"]>>
                        ELSE IF ~IsGitRepo(dirs)
                        THEN <<[path |-> <<>>, reason |-> "no git repo"]>>
                        ELSE <<[path |-> <<>>, reason |-> git]>>]
    /\ Goto(r, "summary")
    /\ UNCHANGED <<dirs, files, argv, raw, structure, root_key, counts, version_num,
                   zip_basename, created, runs, history>>

\* the build summary is printed and main returns
Summary(r) ==
    /\ pc[r] = "summary"
    /\ Exit(r, 0, "")
    /\ history' = Append(history, [base |-> argv[r].base_name, version |-> version_num[r],
                                   out |-> out_dir(r)])
    /\ UNCHANGED <<dirs, files, argv, raw, structure, root_key, counts, version_num,
                   zip_basename, created, reported, runs>>

Begin(r) == Start(r, Inputs)
BeginConc(r) == Start(r, ConcInputs)

Step(r) ==
    \/ LoadJson(r)
    \/ RootKey(r)
    \/ Validate(r)
    \/ MakeParent(r)
    \/ Version(r)
    \/ MakeReleases(r)
    \/ Create(r)
    \/ FolderDocs(r)
    \/ HtmlIndex(r)
    \/ Changelog(r)
    \/ LatestJson(r)
    \/ Zip(r)
    \/ Ledger(r)
    \/ GitCommit(r)
    \/ Summary(r)

\* builds run one after the other
Next == Begin(1) \/ Step(1)
Spec == Init /\ [][Next]_vars

\* two invocations against the same parent, interleaved step by step
NextConc == \E r \in Procs : BeginConc(r) \/ Step(r)
SpecConc == Init /\ [][NextConc]_vars

(***************************************************************************)
(* Notions the properties below are stated with.                           *)
(***************************************************************************)
AfterCreate == {"docs", "html", "changelog", "latest", "zip", "ledger", "git", "summary"}
Collaborators == {"generate_folder_docs", "generate_html_index", "write_changelog",
                  "write_latest_json", "try_git_commit"}
\* create_structure has returned normally in invocation r's current run
Materialized(r) ==
    \/ pc[r] \in AfterCreate
    \/ /\ pc[r] = "exit"
       /\ error[r] \in Collaborators \cup {"make_zip", "append_build_log", ""}
       /\ version_num[r] > 0
Succeeded(r) == pc[r] = "exit" /\ exit_code[r] = 0

\* every problem a tree holds: each illegal name and each wrong value type
RECURSIVE AllProblems(_, _)
AllProblems(node, path) ==
    IF node.type # "dict" THEN {}
    ELSE UNION {
           LET name == node.kids[i][1]
               contents == node.kids[i][2]
               here == Append(path, name)
           IN  (IF ValidateName(name, here) # <<>> THEN {<<here, "name">>} ELSE {})
               \cup (IF contents.type \notin {"dict", "str", "None"}
                     THEN {<<here, "type">>} ELSE {})
               \cup AllProblems(contents, here)
           : i \in 1..Len(node.kids)}
Problems(node, path) ==
    IF node.type # "dict" THEN {<<path, "type">>} ELSE AllProblems(node, path)

\* nested Directory levels of a tree, its root included
RECURSIVE Depth(_)
Depth(node) ==
    IF node.type # "dict" THEN 0
    ELSE 1 + (IF Len(node.kids) = 0 THEN 0
              ELSE Max({Depth(node.kids[i][2]) : i \in 1..Len(node.kids)}))

\* the FileLeafs a tree declares: <<path the kernel resolves under root, content>>
RECURSIVE Leaves(_, _)
Leaves(node, root) ==
    UNION {
      LET contents == node.kids[i][2]
          path == Join(root, node.kids[i][1])
      IN  IF contents.type = "dict" THEN Leaves(contents, path)
          ELSE {<<path, ContentOf(contents)>>}
      : i \in 1..Len(node.kids)}

ArchiveOf(r) == files[zip_path(r)][1].entries
\* the build lines build_log.txt holds, in file order
LedgerLines ==
    IF IsFile(files, LogPath)
    THEN SelectSeq(files[LogPath], LAMBDA c : c.kind = "line")
    ELSE <<>>
Quiet == \A r \in Procs : pc[r] \in {"idle", "exit"}
BuildsOf(base) == SelectSeq(history, LAMBDA h : h.base = base)

(***************************************************************************)
(* The properties.                                                         *)
(***************************************************************************)

\* C1: name safety.  Every directory and file create_structure creates for
\* an accepted tree lies inside the root it was given, the release
\* directory <parent>/<base>_v<N>.
NameSafety ==
    \A r \in Procs : \A p \in created[r] : IsUnder(p, out_dir(r))

\* C2: version assignment over sequential runs.  compute_next_version gives
\* 1 when the parent is missing or holds no <base>_v<digits> entry, and once
\* the pipeline has materialized version N the next call gives N + 1.
VersionAssignment ==
    /\ \A b \in {nP, nQ} :
         (~IsDir(dirs, ParentDir) \/ ~\E s \in VersionSuffixes(b, dirs, files) : IsDigit(s))
           => ComputeNextVersion(b, dirs, files) = [ok |-> TRUE, version |-> 1]
    /\ \A r \in Procs :
         Materialized(r)
           => ComputeNextVersion(argv[r].base_name, dirs, files)
                = [ok |-> TRUE, version |-> version_num[r] + 1]

\* C3: no mutation before a passed validation.  A step taken while the run
\* is loading the structure file, resolving the root key or validating
\* changes neither directories nor files, and when it ends the run the exit
\* code is not 0 and create_structure has created nothing.
NoMutationBeforeValidation ==
    [][\A r \in Procs :
         (pc[r] \in {"load", "rootkey", "validate"} /\ pc'[r] # pc[r])
           => /\ dirs' = dirs
              /\ files' = files
              /\ history' = history
              /\ pc'[r] \in {"rootkey", "validate", "mkparent", "exit"}
              /\ pc'[r] = "exit" => (exit_code'[r] # 0 /\ created'[r] = {})]_vars

\* C3's case: a second run rejected by validation after a first build
\* succeeded, the release of the first build on disk
RejectedAfterBuild ==
    /\ pc[1] = "exit"
    /\ error[1] = "validation"
    /\ exit_code[1] = 1
    /\ Len(history) = 1
    /\ IsDir(dirs, history[1].out)
    /\ Len(LedgerLines) = 1

\* C4: end-to-end content fidelity.  After a successful build every
\* declared FileLeaf exists at its declared path under the release directory
\* with its declared content, and the archive holds it with the same content.
ContentFidelity ==
    \A r \in Procs :
      Succeeded(r) =>
        \A leaf \in Leaves(structure[r], out_dir(r)) :
          LET path == leaf[1]
              entry == SubSeq(path, Len(out_dir(r)), Len(path))
          IN  /\ IsUnder(path, out_dir(r))
              /\ IsFile(files, path)
              /\ files[path] = leaf[2]
              /\ entry \in DOMAIN ArchiveOf(r)
              /\ ArchiveOf(r)[entry] = leaf[2]

\* C5: the ledger is append-only with one line per successful build.
\* Between runs the ledger holds exactly one line per successful build, in
\* build order (failed runs added none, earlier lines are unchanged), the
\* builds have distinct release directories, and when every run so far was
\* a successful build the k builds of base name P carry versions v1..vk.
LedgerOnePerBuild ==
    Quiet =>
      /\ Len(LedgerLines) = Len(history)
      /\ \A i \in 1..Len(history) :
           /\ LedgerLines[i].kind = "line"
           /\ LedgerLines[i].base = history[i].base
           /\ LedgerLines[i].label = VersionLabel(history[i].version)
           /\ LedgerLines[i].out = history[i].out
           /\ IsDir(dirs, history[i].out)
      /\ Cardinality({history[i].out : i \in 1..Len(history)}) = Len(history)
      /\ Len(history) = runs
           => \A i \in 1..Len(BuildsOf(nP)) : BuildsOf(nP)[i].version = i

\* C6: validation is exhaustive.  A failed validation reports every problem
\* of the tree, each with its own path.
ValidationExhaustive ==
    \A r \in Procs :
      error[r] = "validation" =>
        Len(reported[r]) = Cardinality(Problems(structure[r], <<root_key[r]>>))

\* C7: depth guard.  No tree of more than 20 nested Directory levels passes
\* validation and reaches create_structure.
DepthGuard ==
    \A r \in Procs :
      pc[r] \in {"mkparent", "version", "mkreleases", "create"} \cup AfterCreate
        => Depth(structure[r]) <= 20

\* C8: a ledger write failure is non-fatal.  When append_build_log fails
\* after materialization and archiving succeeded, the release directory and
\* the archive stay and the run ends with exit code 0.
LedgerFailureNonFatal ==
    \A r \in Procs :
      (pc[r] = "exit" /\ error[r] = "append_build_log")
        => /\ exit_code[r] = 0
           /\ IsDir(dirs, out_dir(r))
           /\ IsFile(files, zip_path(r))

\* C9: collaborator failures are non-fatal.  A run in which materialization
\* succeeded and a collaborator step failed still produces the archive,
\* appends its ledger line and ends with exit code 0.
CollaboratorFailureNonFatal ==
    \A r \in Procs :
      (pc[r] = "exit" /\ error[r] \in Collaborators)
        => /\ exit_code[r] = 0
           /\ IsFile(files, zip_path(r))
           /\ \E i \in 1..Len(LedgerLines) : LedgerLines[i].out = out_dir(r)

\* C10: the version race is not prevented.  Two invocations that hold the
\* same version of the same base name use one release directory and one
\* archive path, and neither's materialization removes or refuses what the
\* other created: everything both created is on disk.
RaceNotPrevented ==
    \A r1, r2 \in Procs :
      (/\ r1 # r2
       /\ Materialized(r1)
       /\ Materialized(r2)
       /\ argv[r1].base_name = argv[r2].base_name
       /\ version_num[r1] = version_num[r2])
        => /\ out_dir(r1) = out_dir(r2)
           /\ ZipBasename(argv[r1].base_name, version_num[r1])
                = ZipBasename(argv[r2].base_name, version_num[r2])
           /\ \A p \in created[r1] \cup created[r2] : PathExists(dirs, files, p)

\* C10's case: both invocations read the parent before either created its
\* release directory, both built version N into the same directory and
\* wrote the same archive path, and both ended as successful builds
RaceReached ==
    /\ Succeeded(1)
    /\ Succeeded(2)
    /\ argv[1].base_name = argv[2].base_name
    /\ version_num[1] = version_num[2]
    /\ zip_path(1) = zip_path(2)
    /\ created[1] # {}
    /\ created[2] # {}
    /\ \A p \in created[1] \cup created[2] : IsUnder(p, out_dir(1))
    /\ Len(history) = 2
    /\ history[1].out = history[2].out

====
